---- MODULE Spec2Model ----
(***************************************************************************)
(* Model of the resilient Linear API client facade (LinearService):        *)
(* withRetry, handleLinearError, the viewer / teams / workflow-state       *)
(* caches, the shared throttle and the facade operations built from them.  *)
(*                                                                         *)
(* Time is the value of Date.now() in milliseconds.  Strings that the code *)
(* inspects (error messages, identifiers) are sequences of tokens: every   *)
(* character of an identifier or of a remote error text that may matter to *)
(* String.includes is its own token, a literal phrase of the source that   *)
(* holds no digit is one token.                                            *)
(***************************************************************************)
EXTENDS Integers, Sequences, FiniteSets, TLC

\* ------------------------------------------------------------------ bounds
NumCallers == 2
MaxInvocationsRetry == 1
MaxInvocationsCache == 3
MaxInvocationsLimiter == 12
MaxClockRetry == 15000
MaxClockCache == 900000
MaxClockLimiter == 1000
MaxInvocationsBurst == 11
MaxClockBurst == 1000
MaxInvocationsViewer == 3
MaxClockViewer == 600000
MaxInvocationsInputs == 2
MaxInvocationsSingleton == 2
MaxResets == 2
MaxInvocationsFair == 11
MaxClockFair == 1000
MaxInvocationsStampede == 2
MaxClockStampede == 500
MaxInvocationsTeams == 3
MaxClockTeams == 900000
MaxInvocationsInterleave == 2
MaxClockInterleave == 1000
MaxInvocationsStale == 2
MaxClockStale == 900000

Callers == 1..NumCallers

\* --------------------------------------------------------- program constants
Limit == 10
Interval == 1000
MaxRetries == 3
InitialDelay == 1000
MaxDelay == 10000
BackoffMultiplier == 2
DefaultLimit == 50
MaxLimit == 250
VIEWER_CACHE_TTL == 5 * 60 * 1000
TEAMS_CACHE_TTL == 10 * 60 * 1000
WORKFLOW_STATES_CACHE_TTL == 15 * 60 * 1000

\* ------------------------------------------------------------------ strings
\* String.prototype.includes
Includes(s, pat) ==
  \E i \in 1..(Len(s) - Len(pat) + 1) : SubSeq(s, i, i + Len(pat) - 1) = pat

Me == <<"m", "e">>

\* a value of type string | null | undefined
Undefined == [t |-> "undefined", s |-> <<>>]
Null == [t |-> "null", s |-> <<>>]
Str(x) == [t |-> "string", s |-> x]

\* a key that an input object does not hold
NoKey == [t |-> "nokey", s |-> <<>>]

\* a value of type number | undefined, and a key of that type that is not held
NoNumber == [t |-> "undefined", n |-> 0]
Num(n) == [t |-> "number", n |-> n]
NoNumberKey == [t |-> "nokey", n |-> 0]

\* JavaScript truthiness of a string | null | undefined
Truthy(v) == v.t = "string" /\ v.s # <<>>

\* ------------------------------------------------------------------- errors
NoError ==
  [name |-> "none", message |-> <<>>, statusCode |-> 0, code |-> "none",
   details |-> <<>>]

\* new Error(message), as thrown by the remote capability
PlainError(message) ==
  [name |-> "Error", message |-> message, statusCode |-> 0, code |-> "none",
   details |-> <<>>]

\* details, the error an AppError wraps, is kept as the message of that error
AppError(message, statusCode, code) ==
  [name |-> "AppError", message |-> message, statusCode |-> statusCode, code |-> code,
   details |-> <<>>]

\* withRetry's test for the errors it does not retry
IsClientError(message) ==
  Includes(message, <<"4", "0", "4">>) \/ Includes(message, <<"4", "0", "0">>)

\* Math.pow on naturals
RECURSIVE Pow(_, _)
Pow(b, e) == IF e = 0 THEN 1 ELSE b * Pow(b, e - 1)

Min(a, b) == IF a < b THEN a ELSE b

\* variant of BackoffDelay that grows linearly
BackoffDelayLinear(attempt) == Min(InitialDelay * (attempt + 1), MaxDelay)

BackoffDelay(attempt) ==
  Min(InitialDelay * Pow(BackoffMultiplier, attempt), MaxDelay)

\* variant of OnFailure without the test for client errors
OnFailureNoClientCheck(error, attempt, retries) ==
  IF attempt = retries THEN "throw" ELSE "sleep"

\* variant of OnFailure whose loop runs one attempt longer
OnFailureOneMore(error, attempt, retries) ==
  IF IsClientError(error.message) THEN "throw"
  ELSE IF attempt = retries + 1 THEN "throw"
  ELSE "sleep"

\* variant of Retries in which searchIssues calls the remote without withRetry
RetriesButSearch(op) == IF op = "searchIssues" THEN 0 ELSE MaxRetries

\* every operation calls withRetry with the default `retries`
Retries(op) == MaxRetries

\* variant of StoreLastError that keeps the error of the first failed attempt
StoreLastErrorFirst(lastError, error) ==
  IF lastError # NoError THEN lastError ELSE error

\* `lastError = error`: each failed attempt overwrites withRetry's lastError,
\* and lastError is what withRetry throws
StoreLastError(lastError, error) == error

\* variant of OnFailure that never gives up on an error that is not a client error
OnFailureNeverGivesUp(error, attempt, retries) ==
  IF IsClientError(error.message) THEN "throw" ELSE "sleep"

\* the catch block of withRetry: what follows a failed attempt
OnFailure(error, attempt, retries) ==
  IF IsClientError(error.message) THEN "throw"
  ELSE IF attempt = retries THEN "throw"
  ELSE "sleep"

\* variant of HandleLinearError that leaves the params out of the message
HandleLinearErrorNoParams(error, context, paramString) ==
  [AppError(<<context, ": ">> \o error.message, 500, "InternalError")
     EXCEPT !.details = error.message]

\* handleLinearError: the error every facade operation but healthCheck throws
HandleLinearError(error, context, paramString) ==
  [AppError(IF paramString # <<>>
              THEN <<context, " (">> \o paramString \o <<"): ">> \o error.message
              ELSE <<context, ": ">> \o error.message,
            500, "InternalError")
     EXCEPT !.details = error.message]

\* ------------------------------------------------------ the remote capability
Endpoints ==
  {"viewer", "teams", "issues", "createIssue", "updateIssue", "issue", "team",
   "states", "createComment"}

\* endpoints whose answer may hold no entity (null issue, team or comment)
Nullable == {"createIssue", "updateIssue", "issue", "team", "createComment"}

Ok(d) == [kind |-> "ok", data |-> d, message |-> <<>>]
Absent == [kind |-> "absent", data |-> "null", message |-> <<>>]
Rejected(m) == [kind |-> "error", data |-> "none", message |-> m]

NetworkError == <<"API Error">>
NotFound404 == <<"Entity not found: ", "4", "0", "4">>
BadRequest400 == <<"4", "0", "0", " Bad Request">>

\* -------------------------------------------------------------------- state
VARIABLES
  clock,                \* Date.now()
  invocations,          \* facade invocations made so far
  proc,                 \* per caller: the invocation in progress
  viewerCache,          \* LinearService.viewerCache ("undefined" when unset)
  viewerCacheExpiry,    \* LinearService.viewerCacheExpiry (0 when unset)
  teamsCache,           \* LinearService.teamsCache
  workflowStatesCache,  \* LinearService.workflowStatesCache
  limiterQueue,         \* throttle: invocations waiting for admission, in order
  limiterStarts,        \* throttle: times of the admissions in the trailing window
  startLog,             \* history: times the bodies of throttled operations started
  apiLog,               \* history: times of the remote calls in the trailing window
  lastFetch,            \* history: per cache key, the last successful fetch
  submitOrder,          \* history: the callers waiting for admission, as submitted
  instance,             \* LinearService.instance (0 when undefined)
  constructions,        \* history: runs of the constructor of LinearService
  resets,               \* history: calls of resetInstance
  held                  \* per caller: the instance its last getInstance returned

vars ==
  <<clock, invocations, proc, viewerCache, viewerCacheExpiry, teamsCache,
    workflowStatesCache, limiterQueue, limiterStarts, startLog, apiLog,
    lastFetch, submitOrder, instance, constructions, resets, held>>

caches == <<viewerCache, viewerCacheExpiry, teamsCache, workflowStatesCache>>

singleton == <<instance, constructions, resets, held>>

T1 == <<"T", "1">>
T404 == <<"T", "4", "0", "4">>
I1 == <<"I", "1">>
U1 == <<"U", "1">>
TeamIds == {T1, T404}
ViewerKey == <<"viewer">>
TeamsKey == <<"teams">>
CacheKeys == {ViewerKey, TeamsKey} \cup TeamIds

\* CacheEntry<T>; present = FALSE stands for undefined
NoEntry == [present |-> FALSE, data |-> "none", expiry |-> 0]
CacheEntry(data, expiry) == [present |-> TRUE, data |-> data, expiry |-> expiry]

\* the query the callers search for unless they say otherwise
Bug == <<"b", "u", "g">>

NoCall ==
  [op |-> "none", teamId |-> <<>>, issueId |-> <<>>, assigneeId |-> Undefined,
   description |-> Undefined, priority |-> NoNumber, limit |-> NoNumber,
   query |-> <<>>, status |-> Undefined]

\* an invocation with its arguments; the arguments an operation does not take,
\* or that the caller leaves out, are undefined
CallWith(op, teamId, issueId, assigneeId, description, priority, limit) ==
  [op |-> op, teamId |-> teamId, issueId |-> issueId, assigneeId |-> assigneeId,
   description |-> description, priority |-> priority, limit |-> limit,
   query |-> Bug, status |-> Undefined]

Call(op, teamId, issueId, assigneeId) ==
  CallWith(op, teamId, issueId, assigneeId, Undefined, NoNumber, NoNumber)

\* searchIssues(query, teamId, status, assigneeId, limit); a teamId of <<>>
\* stands for a teamId that is undefined or ''
SearchCall(query, teamId, status, assigneeId, limit) ==
  [CallWith("searchIssues", teamId, <<>>, assigneeId, Undefined, NoNumber, limit)
     EXCEPT !.query = query, !.status = status]

\* the argument of a remote call: the input object of createIssue / updateIssue,
\* `first` and the assignee of the filter of issues; NoInput for the other calls
NoInput ==
  [teamId |-> NoKey, title |-> NoKey, description |-> NoKey,
   priority |-> NoNumberKey, assigneeId |-> NoKey, first |-> NoNumberKey,
   team |-> NoKey, state |-> NoKey, titleContains |-> NoKey]

NoResult == [kind |-> "pending", data |-> "none", error |-> NoError]
Value(d) == [kind |-> "value", data |-> d, error |-> NoError]
Thrown(e) == [kind |-> "error", data |-> "none", error |-> e]
Healthy(d) == [kind |-> "healthy", data |-> d, error |-> NoError]
Unhealthy(e) == [kind |-> "unhealthy", data |-> "none", error |-> e]

Idle ==
  [pc |-> "idle", call |-> NoCall, now |-> 0, attempt |-> 0, wake |-> 0,
   lastError |-> NoError, awaiting |-> "none", viewerId |-> "none",
   result |-> NoResult, calls |-> [e \in Endpoints |-> 0], sleeps |-> 0,
   admitted |-> 0, lookup |-> "none", sent |-> NoInput, errors |-> <<>>,
   waited |-> FALSE]

\* ------------------------------------------------- the shape of the operations
\* variant of Throttled in which getIssue runs outside the throttle
ThrottledButGetIssue == {"getTeams", "healthCheck", "getWorkflowStates", "addComment"}

\* the operations whose body is passed to throttle(...)
Throttled == {"getTeams", "healthCheck", "getIssue", "getWorkflowStates", "addComment"}

\* the first remote call of the function an operation hands to withRetry
FirstEndpoint(op) ==
  CASE op = "getTeams" -> "teams"
    [] op = "searchIssues" -> "issues"
    [] op = "createIssue" -> "createIssue"
    [] op = "updateIssue" -> "updateIssue"
    [] op = "getViewer" -> "viewer"
    [] op = "healthCheck" -> "viewer"
    [] op = "getIssue" -> "issue"
    [] op = "getWorkflowStates" -> "team"
    [] op = "addComment" -> "createComment"

\* the context each operation's catch block hands to handleLinearError
Context(op) ==
  CASE op = "getTeams" -> "Failed to fetch teams from Linear"
    [] op = "searchIssues" -> "Failed to search issues in Linear"
    [] op = "createIssue" -> "Failed to create issue in Linear"
    [] op = "updateIssue" -> "Failed to update issue in Linear"
    [] op = "getViewer" -> "Failed to fetch current user from Linear"
    [] op = "getIssue" -> "Failed to fetch issue from Linear"
    [] op = "getWorkflowStates" -> "Failed to fetch workflow states from Linear"
    [] op = "addComment" -> "Failed to add comment to issue in Linear"
    [] op = "healthCheck" -> "Health check failed"

\* the params each catch block hands to handleLinearError, as "key: value"
ParamString(call) ==
  CASE call.op = "getIssue" -> <<"issueId: ">> \o call.issueId
    [] call.op = "addComment" -> <<"issueId: ">> \o call.issueId
    [] call.op = "updateIssue" -> <<"issueId: ">> \o call.issueId
    [] call.op = "getWorkflowStates" -> <<"teamId: ">> \o call.teamId
    [] call.op = "createIssue" -> <<"teamId: ">> \o call.teamId \o <<", title: ", "Title">>
    [] call.op = "searchIssues" -> <<"query: ">> \o call.query
    [] OTHER -> <<>>

\* an operation resolves the sentinel 'me' through getCachedViewer
ResolvesMe(call) ==
  /\ call.op \in {"searchIssues", "createIssue", "updateIssue"}
  /\ call.assigneeId = Str(Me)

\* variant of CacheKey in which the workflow states of all teams share one entry
CacheKeyOneTeam(call) ==
  CASE call.op = "getTeams" -> TeamsKey
    [] call.op = "getWorkflowStates" -> T1
    [] ResolvesMe(call) -> ViewerKey
    [] OTHER -> <<>>

\* the cache key an invocation reads, <<>> when it reads none
CacheKey(call) ==
  CASE call.op = "getTeams" -> TeamsKey
    [] call.op = "getWorkflowStates" -> call.teamId
    [] ResolvesMe(call) -> ViewerKey
    [] OTHER -> <<>>

TTL(key) ==
  CASE key = ViewerKey -> VIEWER_CACHE_TTL
    [] key = TeamsKey -> TEAMS_CACHE_TTL
    [] OTHER -> WORKFLOW_STATES_CACHE_TTL

\* the remote call whose answer fills the cache under a key
FetchEndpoint(key) ==
  CASE key = ViewerKey -> "viewer"
    [] key = TeamsKey -> "teams"
    [] OTHER -> "team"

\* ------------------------------------------------------------------- caches
\* variant of CacheValid that still serves an entry at its expiry time
CacheValidInclusive(entry, now) == entry.present /\ now <= entry.expiry

\* `cached && now < cached.expiry`
CacheValid(entry, now) == entry.present /\ now < entry.expiry

\* variant of ViewerEntry in which getCachedViewer never finds a stored viewer
ViewerEntryNotShared == NoEntry

\* `this.viewerCache && this.viewerCacheExpiry && now < this.viewerCacheExpiry`
ViewerEntry ==
  IF viewerCache # "undefined" /\ viewerCacheExpiry # 0
    THEN CacheEntry(viewerCache, viewerCacheExpiry)
    ELSE NoEntry

\* the entry a lookup under a key reads
EntryOf(key) ==
  CASE key = ViewerKey -> ViewerEntry
    [] key = TeamsKey -> teamsCache
    [] OTHER -> workflowStatesCache[key]

\* variant of Expiry that gives every cache the TTL of the viewer cache
ExpiryShortTTL(now, key) == now + VIEWER_CACHE_TTL

\* variant of Expiry that lets an entry live one millisecond longer
ExpiryOneMore(now, key) == now + TTL(key) + 1

\* the expiry written with a fetched value: now is read before the fetch
Expiry(now, key) == now + TTL(key)


\* ------------------------------------------------------------------ throttle
\* the entries of a log of times that lie in the window trailing time t
InWindow(log, t) == SelectSeq(log, LAMBDA s : s > t - Interval)

\* a log with one more entry; it keeps what suffices to count past Limit
Logged(log, t) ==
  LET w == Append(InWindow(log, t), t)
  IN IF Len(w) > Limit + 1 THEN Tail(w) ELSE w

\* variant of CanAdmit whose window never slides: a budget of Limit starts
CanAdmitBudget(starts, t) == Len(starts) < Limit /\ t < Interval

\* the throttle admits a start while fewer than Limit lie in the trailing window
CanAdmit(starts, t) == Len(InWindow(starts, t)) < Limit

\* ------------------------------------------------- the inputs of remote calls
\* the id of the viewer as a string value
ViewerId(viewerId) == Str(<<viewerId>>)

\* the assignee createIssue puts into its input
CreateAssigneeId(assigneeId, viewerId) ==
  IF assigneeId = Str(Me) THEN ViewerId(viewerId)
  ELSE IF Truthy(assigneeId) THEN assigneeId
  ELSE NoKey

\* variant of CreateIssueInput that assigns description unconditionally
CreateIssueInputAlwaysDescription(call, viewerId) ==
  [NoInput EXCEPT
     !.teamId = Str(call.teamId),
     !.title = Str(<<"Title">>),
     !.description = call.description,
     !.priority = IF call.priority.t # "undefined" THEN call.priority ELSE NoNumberKey,
     !.assigneeId = CreateAssigneeId(call.assigneeId, viewerId)]

\* issueInput of createIssue
CreateIssueInput(call, viewerId) ==
  [NoInput EXCEPT
     !.teamId = Str(call.teamId),
     !.title = Str(<<"Title">>),
     !.description = IF Truthy(call.description) THEN call.description ELSE NoKey,
     !.priority = IF call.priority.t # "undefined" THEN call.priority ELSE NoNumberKey,
     !.assigneeId = CreateAssigneeId(call.assigneeId, viewerId)]

\* variant of UpdateAssigneeId that takes the empty string for no assignee given
UpdateAssigneeIdEmptyIsAbsent(assigneeId, viewerId) ==
  IF assigneeId = Str(Me) THEN ViewerId(viewerId)
  ELSE IF assigneeId = Null THEN Null
  ELSE IF Truthy(assigneeId) THEN assigneeId
  ELSE NoKey

\* the assignee updateIssue puts into its input
UpdateAssigneeId(assigneeId, viewerId) ==
  IF assigneeId = Str(Me) THEN ViewerId(viewerId)
  ELSE IF assigneeId = Null \/ assigneeId = Str(<<>>) THEN Null
  ELSE IF Truthy(assigneeId) THEN assigneeId
  ELSE NoKey

\* issueInput of updateIssue; the callers modelled leave updates.title and
\* updates.stateId undefined
UpdateIssueInput(call, viewerId) ==
  [NoInput EXCEPT
     !.description = IF call.description.t # "undefined" THEN call.description ELSE NoKey,
     !.priority = IF call.priority.t # "undefined" THEN call.priority ELSE NoNumberKey,
     !.assigneeId = UpdateAssigneeId(call.assigneeId, viewerId)]

\* variant of CappedLimit without the cap
CappedLimitUncapped(limit) == IF limit.t = "undefined" THEN DefaultLimit ELSE limit.n

\* `limit = 50` and `Math.min(limit, 250)`
CappedLimit(limit) ==
  Min(IF limit.t = "undefined" THEN DefaultLimit ELSE limit.n, MaxLimit)

\* filter.assignee of searchIssues
SearchAssigneeId(assigneeId, viewerId) ==
  IF ~Truthy(assigneeId) THEN NoKey
  ELSE IF assigneeId = Str(Me) THEN ViewerId(viewerId)
  ELSE assigneeId

\* the characters String.prototype.trim removes
Whitespace == {" ", "\t", "\n"}

RECURSIVE TrimStart(_)
TrimStart(s) ==
  IF s # <<>> /\ Head(s) \in Whitespace THEN TrimStart(Tail(s)) ELSE s

RECURSIVE TrimEnd(_)
TrimEnd(s) ==
  IF s # <<>> /\ s[Len(s)] \in Whitespace
    THEN TrimEnd(SubSeq(s, 1, Len(s) - 1))
    ELSE s

\* String.prototype.trim
Trim(s) == TrimEnd(TrimStart(s))

\* variant of SearchTitle that takes the query as it is given
SearchTitleUntrimmed(query) == IF query # <<>> THEN Str(query) ELSE NoKey

\* filter.title.containsIgnoreCase of searchIssues
SearchTitle(query) ==
  IF query # <<>> /\ Trim(query) # <<>> THEN Str(Trim(query)) ELSE NoKey

\* the argument of client.issues: `first` and the clauses of the filter
SearchInput(call, viewerId) ==
  [NoInput EXCEPT
     !.first = Num(CappedLimit(call.limit)),
     !.team = IF call.teamId # <<>> THEN Str(call.teamId) ELSE NoKey,
     !.state = IF Truthy(call.status) THEN call.status ELSE NoKey,
     !.assigneeId = SearchAssigneeId(call.assigneeId, viewerId),
     !.titleContains = SearchTitle(call.query)]

\* the argument an operation hands to a remote call
RemoteInput(call, viewerId, ep) ==
  CASE ep = "createIssue" -> CreateIssueInput(call, viewerId)
    [] ep = "updateIssue" -> UpdateIssueInput(call, viewerId)
    [] ep = "issues" -> SearchInput(call, viewerId)
    [] OTHER -> NoInput

\* ------------------------------------------------------------------ the steps
\* variant of Issue in which every remote call passes through the throttle
IssueAcquiresSlot(p, ep) ==
  [p EXCEPT !.pc = "attempt", !.awaiting = ep, !.calls[ep] = @ + 1,
            !.sent = RemoteInput(p.call, p.viewerId, ep), !.admitted = @ + 1]

\* issue a remote call and await its answer inside withRetry
Issue(p, ep) ==
  [p EXCEPT !.pc = "attempt", !.awaiting = ep, !.calls[ep] = @ + 1,
            !.sent = RemoteInput(p.call, p.viewerId, ep)]

Done(p, result) == [p EXCEPT !.pc = "done", !.awaiting = "none", !.result = result]

\* variant of Caught in which the catch block of healthCheck throws as the others do
CaughtAlwaysThrows(call, error) ==
  Thrown(HandleLinearError(error, Context(call.op), ParamString(call)))

\* the catch block of an operation: healthCheck answers, the others throw
Caught(call, error) ==
  IF call.op = "healthCheck"
    THEN Unhealthy(error)
    ELSE Thrown(HandleLinearError(error, Context(call.op), ParamString(call)))

\* the body of an operation up to its first await: the cache lookup of
\* getTeams / getWorkflowStates / getCachedViewer, then the first remote call
Enter(p) ==
  LET key == CacheKey(p.call)
      first == FirstEndpoint(p.call.op)
      q == [p EXCEPT !.now = clock]
  IN IF key = <<>> THEN Issue(p, first)
     ELSE IF CacheValid(EntryOf(key), clock)
       THEN IF key = ViewerKey
              THEN Issue([q EXCEPT !.lookup = "hit", !.viewerId = EntryOf(key).data],
                         first)
              ELSE Done([q EXCEPT !.lookup = "hit"], Value(EntryOf(key).data))
       ELSE IF key = ViewerKey
              THEN [q EXCEPT !.lookup = "miss", !.pc = "resolve",
                             !.awaiting = "viewer", !.calls["viewer"] = @ + 1]
              ELSE Issue([q EXCEPT !.lookup = "miss"], first)

\* remote calls an invocation has issued so far
TotalCalls(p) ==
  p.calls["viewer"] + p.calls["teams"] + p.calls["issues"] + p.calls["createIssue"]
  + p.calls["updateIssue"] + p.calls["issue"] + p.calls["team"] + p.calls["states"]
  + p.calls["createComment"]

LogCalls(p, q) == IF TotalCalls(q) > TotalCalls(p) THEN Logged(apiLog, clock) ELSE apiLog

\* the function handed to withRetry, continued with the answer of the remote call
FnStep(call, awaiting, out) ==
  LET throw(e) == [t |-> "throw", ep |-> "none", data |-> "none", error |-> e]
      return(d) == [t |-> "return", ep |-> "none", data |-> d, error |-> NoError]
  IN IF out.kind = "error" THEN throw(PlainError(out.message))
     ELSE IF awaiting = "team" THEN
       IF out.kind = "absent"
         THEN throw(AppError(<<"Team not found: ">> \o call.teamId, 404, "InvalidRequest"))
         ELSE [t |-> "next", ep |-> "states", data |-> "none", error |-> NoError]
     ELSE IF awaiting = "createIssue" /\ out.kind = "absent" THEN
       throw(AppError(<<"Failed to create issue">>, 500, "InternalError"))
     ELSE IF awaiting = "updateIssue" /\ out.kind = "absent" THEN
       throw(AppError(<<"Failed to update issue">>, 500, "InternalError"))
     ELSE IF awaiting = "createComment" /\ out.kind = "absent" THEN
       throw(AppError(<<"Failed to create comment">>, 500, "InternalError"))
     ELSE return(out.data)

\* what an operation does with the value withRetry returned
Completed(call, data) ==
  IF call.op = "getIssue" /\ data = "null"
    THEN Caught(call, AppError(<<"Issue not found: ">> \o call.issueId, 404,
                               "InvalidRequest"))
  ELSE IF call.op = "healthCheck" THEN Healthy(data)
  ELSE Value(data)

\* variant of Outcome in which a failed viewer fetch counts as a viewer
OutcomeAlwaysResolved(p, out) ==
  IF p.pc = "resolve"
    THEN [t |-> "resolved", ep |-> "none", data |-> out.data,
          error |-> PlainError(out.message)]
    ELSE FnStep(p.call, p.awaiting, out)

\* the step an answer of the remote capability leads to
Outcome(p, out) ==
  IF p.pc = "resolve"
    THEN [t |-> IF out.kind = "ok" THEN "resolved" ELSE "unresolved", ep |-> "none",
          data |-> out.data, error |-> PlainError(out.message)]
    ELSE FnStep(p.call, p.awaiting, out)

\* variant of OnSuccess in which the first attempt is run again after it succeeded
OnSuccessOnceMore(attempt) == IF attempt = 0 THEN "again" ELSE "return"

\* `return await fn()`: the loop of withRetry ends with the first success
OnSuccess(attempt) == "return"

\* the invocation after the answer: withRetry's loop and the operation's tail
AfterReturn(p, out) ==
  LET o == Outcome(p, out)
  IN CASE o.t = "resolved" ->
            Issue([p EXCEPT !.viewerId = out.data], FirstEndpoint(p.call.op))
       [] o.t = "unresolved" -> Done(p, Caught(p.call, o.error))
       [] o.t = "next" -> Issue(p, o.ep)
       [] o.t = "return" ->
            IF OnSuccess(p.attempt) = "return"
              THEN Done([p EXCEPT !.lastError = NoError], Completed(p.call, o.data))
              ELSE Issue([p EXCEPT !.attempt = @ + 1], FirstEndpoint(p.call.op))
       [] o.t = "throw" ->
            LET lastError == StoreLastError(p.lastError, o.error)
                q == [p EXCEPT !.lastError = lastError, !.errors = Append(@, o.error)]
            IN IF OnFailure(lastError, p.attempt, Retries(p.call.op)) = "throw"
                 THEN Done(q, Caught(p.call, lastError))
                 ELSE [q EXCEPT !.pc = "sleep", !.awaiting = "none", !.sleeps = @ + 1,
                                !.wake = clock + BackoffDelay(p.attempt)]

\* variant of Written in which getTeams stores the answer even when the fetch failed
WrittenOnError(p, out) ==
  LET o == Outcome(p, out)
  IN IF o.t = "resolved" THEN ViewerKey
     ELSE IF o.t \in {"return", "throw"} /\ p.call.op = "getTeams" THEN TeamsKey
     ELSE IF o.t = "return" /\ p.call.op = "getWorkflowStates" THEN p.call.teamId
     ELSE <<>>

\* variant of Written in which getWorkflowStates does not store what it fetched
WrittenTeamsOnly(p, out) ==
  LET o == Outcome(p, out)
  IN IF o.t = "resolved" THEN ViewerKey
     ELSE IF o.t = "return" /\ p.call.op = "getTeams" THEN TeamsKey
     ELSE <<>>

\* the cache key an answer makes the invocation write, <<>> when none
Written(p, out) ==
  LET o == Outcome(p, out)
  IN IF o.t = "resolved" THEN ViewerKey
     ELSE IF o.t = "return" /\ p.call.op \in {"getTeams", "getWorkflowStates"}
       THEN CacheKey(p.call)
     ELSE <<>>

\* the operations whose starts the history startLog records
RateLimitedOps ==
  {"getTeams", "getIssue", "getWorkflowStates", "addComment", "healthCheck"}

\* variant of Touched in which a hit renews the expiry of the entry
TouchedSliding(entry, now, key) == [entry EXCEPT !.expiry = now + TTL(key)]

\* the entry after a hit: the hit returns its data and writes nothing
Touched(entry, now, key) == entry

\* variant of HoldsThread in which the backoff sleep is a busy wait
HoldsThreadWhileAsleep(p) == p.pc = "sleep"

\* `await new Promise(resolve => setTimeout(resolve, delay))`, `await fn()`:
\* an invocation that sleeps or awaits an answer has yielded the thread
HoldsThread(p) == FALSE

\* a callback can run: no invocation holds the thread
Runnable == \A d \in Callers : ~HoldsThread(proc[d])

\* the caches after the lookup that begins the body of an invocation
Lookup(call) ==
  LET key == CacheKey(call)
      hit == key # <<>> /\ CacheValid(EntryOf(key), clock)
      e == IF hit THEN Touched(EntryOf(key), clock, key) ELSE NoEntry
  IN /\ viewerCache' = IF hit /\ key = ViewerKey THEN e.data ELSE viewerCache
     /\ viewerCacheExpiry' =
          IF hit /\ key = ViewerKey THEN e.expiry ELSE viewerCacheExpiry
     /\ teamsCache' = IF hit /\ key = TeamsKey THEN e ELSE teamsCache
     /\ workflowStatesCache' =
          IF hit /\ key \in TeamIds
            THEN [workflowStatesCache EXCEPT ![key] = e]
            ELSE workflowStatesCache

\* variant of Enqueue that puts the newcomer first
EnqueueFirst(queue, c) == <<c>> \o queue

\* the throttle queues an invocation behind those already waiting
Enqueue(queue, c) == Append(queue, c)

\* ---------------------------------------------------------------- the actions
\* a caller invokes a facade operation: a throttled one is handed to the
\* throttle, any other runs up to its first await
Invoke(c, call) ==
  /\ proc[c].pc = "idle"
  /\ Runnable
  /\ invocations' = invocations + 1
  /\ LET p == [Idle EXCEPT !.call = call]
     IN IF call.op \in Throttled
          THEN /\ proc' = [proc EXCEPT ![c] = [p EXCEPT !.pc = "queued"]]
               /\ limiterQueue' = Enqueue(limiterQueue, c)
               /\ submitOrder' = Append(submitOrder, c)
               /\ UNCHANGED <<apiLog, startLog, caches>>
          ELSE /\ proc' = [proc EXCEPT ![c] = Enter(p)]
               /\ apiLog' = LogCalls(p, Enter(p))
               /\ startLog' = IF call.op \in RateLimitedOps
                                THEN Logged(startLog, clock) ELSE startLog
               /\ Lookup(call)
               /\ UNCHANGED <<limiterQueue, submitOrder>>
  /\ UNCHANGED <<clock, limiterStarts, lastFetch, singleton>>

\* the throttle starts the body of the invocation at the head of its queue
Admit(c) ==
  /\ Runnable
  /\ limiterQueue # <<>>
  /\ Head(limiterQueue) = c
  /\ CanAdmit(limiterStarts, clock)
  /\ limiterQueue' = Tail(limiterQueue)
  /\ limiterStarts' = Append(InWindow(limiterStarts, clock), clock)
  /\ startLog' = Logged(startLog, clock)
  /\ LET p == [proc[c] EXCEPT !.admitted = @ + 1]
     IN /\ proc' = [proc EXCEPT ![c] = Enter(p)]
        /\ apiLog' = LogCalls(p, Enter(p))
  /\ Lookup(proc[c].call)
  /\ submitOrder' = SelectSeq(submitOrder, LAMBDA d : d # c)
  /\ UNCHANGED <<clock, invocations, lastFetch, singleton>>

\* the remote capability answers the call an invocation awaits
RemoteReturn(c, out) ==
  LET p == proc[c]
      key == Written(p, out)
      entry == CacheEntry(out.data, Expiry(p.now, key))
  IN /\ p.pc \in {"resolve", "attempt"}
     /\ Runnable
     /\ out.kind = "absent" => p.awaiting \in Nullable
     /\ proc' = [proc EXCEPT ![c] = AfterReturn(p, out)]
     /\ apiLog' = LogCalls(p, AfterReturn(p, out))
     /\ viewerCache' = IF key = ViewerKey THEN entry.data ELSE viewerCache
     /\ viewerCacheExpiry' = IF key = ViewerKey THEN entry.expiry ELSE viewerCacheExpiry
     /\ teamsCache' = IF key = TeamsKey THEN entry ELSE teamsCache
     /\ workflowStatesCache' =
          IF key \in TeamIds
            THEN [workflowStatesCache EXCEPT ![key] = entry]
            ELSE workflowStatesCache
     /\ lastFetch' =
          IF key # <<>>
            THEN [lastFetch EXCEPT ![key] = [done |-> TRUE, start |-> p.now,
                                             data |-> out.data, by |-> p.call.op]]
            ELSE lastFetch
     /\ UNCHANGED <<clock, invocations, limiterQueue, limiterStarts, startLog,
                    submitOrder, singleton>>

\* the backoff timer of withRetry fires: the next attempt begins
Wake(c) ==
  LET p == proc[c]
      q == Issue([p EXCEPT !.attempt = @ + 1], FirstEndpoint(p.call.op))
  IN /\ p.pc = "sleep"
     /\ clock >= p.wake
     /\ proc' = [proc EXCEPT ![c] = q]
     /\ apiLog' = LogCalls(p, q)
     /\ UNCHANGED <<clock, invocations, caches, limiterQueue, limiterStarts, startLog,
                    lastFetch, submitOrder, singleton>>

\* the caller takes the result; it may invoke again
Finish(c) ==
  /\ proc[c].pc = "done"
  /\ proc' = [proc EXCEPT ![c] = Idle]
  /\ UNCHANGED <<clock, invocations, caches, limiterQueue, limiterStarts, startLog,
                 apiLog, lastFetch, submitOrder, singleton>>

\* d milliseconds pass
Tick(d, max) ==
  /\ clock + d <= max
  /\ clock' = clock + d
  /\ limiterStarts' = InWindow(limiterStarts, clock + d)
  /\ startLog' = InWindow(startLog, clock + d)
  /\ apiLog' = InWindow(apiLog, clock + d)
  /\ proc' = [c \in Callers |->
                IF proc[c].pc = "queued" THEN [proc[c] EXCEPT !.waited = TRUE]
                ELSE proc[c]]
  /\ UNCHANGED <<invocations, caches, limiterQueue, lastFetch, submitOrder,
                 singleton>>

\* time passes until the backoff timer of an invocation is due
TimerFires(c, max) ==
  /\ proc[c].pc = "sleep"
  /\ proc[c].wake > clock
  /\ Tick(proc[c].wake - clock, max)

\* variant of InstanceAfterGet that constructs at every call
InstanceAfterGetAlwaysNew(current, made) == made + 1

\* `if (!LinearService.instance) LinearService.instance = new LinearService()`;
\* the instances are numbered in the order of their construction
InstanceAfterGet(current, made) == IF current = 0 THEN made + 1 ELSE current

\* the handle a caller holds: the instance, and how many resets preceded the
\* getInstance call that returned it
NoHandle == [id |-> 0, epoch |-> 0]

\* variant of AfterConstruction in which a new instance takes over the caches
AfterConstructionKeepsCaches(fresh, old, empty) == old

\* the cache fields of the instance getInstance returns: those of the current
\* instance, or the initial ones of the instance it constructed
AfterConstruction(fresh, old, empty) == IF fresh THEN empty ELSE old

\* LinearService.getInstance(); a new instance starts with empty caches
GetInstance(c) ==
  LET next == InstanceAfterGet(instance, constructions)
      fresh == next # instance
  IN /\ proc[c].pc = "idle"
     /\ instance' = next
     /\ constructions' = IF fresh THEN constructions + 1 ELSE constructions
     /\ held' = [held EXCEPT ![c] = [id |-> next, epoch |-> resets]]
     /\ viewerCache' = AfterConstruction(fresh, viewerCache, "undefined")
     /\ viewerCacheExpiry' = AfterConstruction(fresh, viewerCacheExpiry, 0)
     /\ teamsCache' = AfterConstruction(fresh, teamsCache, NoEntry)
     /\ workflowStatesCache' =
          AfterConstruction(fresh, workflowStatesCache, [t \in TeamIds |-> NoEntry])
     /\ UNCHANGED <<clock, invocations, proc, limiterQueue, limiterStarts, startLog,
                    apiLog, lastFetch, submitOrder, resets>>

\* LinearService.resetInstance()
ResetInstance ==
  /\ instance' = 0
  /\ resets' = resets + 1
  /\ UNCHANGED <<clock, invocations, proc, caches, limiterQueue, limiterStarts,
                 startLog, apiLog, lastFetch, submitOrder, constructions, held>>

\* the state after construction of the service
Init ==
  /\ clock = 0
  /\ invocations = 0
  /\ proc = [c \in Callers |-> Idle]
  /\ viewerCache = "undefined"
  /\ viewerCacheExpiry = 0
  /\ teamsCache = NoEntry
  /\ workflowStatesCache = [t \in TeamIds |-> NoEntry]
  /\ limiterQueue = <<>>
  /\ limiterStarts = <<>>
  /\ startLog = <<>>
  /\ apiLog = <<>>
  /\ lastFetch = [k \in CacheKeys |->
                    [done |-> FALSE, start |-> 0, data |-> "none", by |-> "none"]]
  /\ submitOrder = <<>>
  /\ instance = 1
  /\ constructions = 1
  /\ resets = 0
  /\ held = [c \in Callers |-> NoHandle]

\* ------------------------------------------ one invocation at a time: retries
RetryCalls ==
  {Call("getTeams", <<>>, <<>>, Undefined),
   Call("getViewer", <<>>, <<>>, Undefined),
   Call("healthCheck", <<>>, <<>>, Undefined),
   Call("getIssue", <<>>, I1, Undefined),
   Call("addComment", <<>>, I1, Undefined),
   Call("getWorkflowStates", T1, <<>>, Undefined),
   Call("getWorkflowStates", T404, <<>>, Undefined),
   Call("searchIssues", <<>>, <<>>, Undefined),
   Call("searchIssues", <<>>, <<>>, Str(Me)),
   Call("createIssue", T1, <<>>, Undefined),
   Call("createIssue", T1, <<>>, Str(Me)),
   Call("updateIssue", <<>>, I1, Null),
   Call("updateIssue", <<>>, I1, Str(Me))}

RetryOutcomes ==
  {Ok("d1"), Absent, Rejected(NetworkError), Rejected(NotFound404),
   Rejected(BadRequest400)}

NextRetry ==
  \/ \E call \in RetryCalls : invocations < MaxInvocationsRetry /\ Invoke(1, call)
  \/ Admit(1)
  \/ \E out \in RetryOutcomes : RemoteReturn(1, out)
  \/ Wake(1)
  \/ TimerFires(1, MaxClockRetry)
  \/ Finish(1)

SpecRetry == Init /\ [][NextRetry]_vars


\* ------------------------------------------------------------ retry: claims
\* the message of an error says 404 or 400
Has4xx(message) ==
  Includes(message, <<"4", "0", "4">>) \/ Includes(message, <<"4", "0", "0">>)

\* withRetry gave up: the invocation ended with the error of a failed attempt
GaveUp(p) == p.pc = "done" /\ p.lastError # NoError

Failed(p) == p.result.kind \in {"error", "unhealthy"}

\* C1: with maxRetries = 3, an invocation whose attempts all fail with errors
\* that are not client errors calls the remote operation exactly 4 times and
\* then fails; no invocation ever makes a 5th call.
C1_ExhaustionAfterFourAttempts ==
  \A c \in Callers :
    LET p == proc[c]
    IN /\ \A e \in Endpoints : p.calls[e] <= 4
       /\ (GaveUp(p) /\ ~Has4xx(p.lastError.message)) =>
            /\ p.calls[FirstEndpoint(p.call.op)] = 4
            /\ p.attempt = 3
            /\ Failed(p)

C1_Witness ==
  \E c \in Callers :
    /\ GaveUp(proc[c])
    /\ proc[c].call.op = "getTeams"
    /\ proc[c].lastError.message = NetworkError
    /\ proc[c].calls["teams"] = 4

\* C2: a client error (400 / 404) at any attempt ends withRetry at once: the
\* invocation is over, no backoff sleep follows the failing attempt and no
\* further attempt is made, so a client error at the first attempt leaves the
\* remote call count at exactly 1.
C2_ClientErrorNeverRetried ==
  \A c \in Callers :
    LET p == proc[c]
    IN (p.lastError # NoError /\ Has4xx(p.lastError.message)) =>
         /\ p.pc = "done"
         /\ Failed(p)
         /\ p.sleeps = p.attempt
         /\ p.calls[FirstEndpoint(p.call.op)] = p.attempt + 1

C2_Witness ==
  \E c \in Callers :
    /\ GaveUp(proc[c])
    /\ proc[c].lastError.message = NotFound404
    /\ proc[c].attempt = 2
    /\ proc[c].calls["issue"] = 3

\* the errors createIssue, updateIssue and addComment throw for an answer
\* that holds no entity
NoEntityMessages ==
  {<<"Failed to create issue">>, <<"Failed to update issue">>,
   <<"Failed to create comment">>}

\* C3 (as claimed): an answer of createIssue / updateIssue / createComment that
\* holds no entity is not retried: the invocation ends there with an internal
\* error and the remote mutation was called once for it.
C3_NoEntityNotRetried ==
  \A c \in Callers :
    LET p == proc[c]
    IN p.lastError.message \in NoEntityMessages =>
         /\ p.pc = "done"
         /\ p.result.kind = "error"
         /\ p.result.error.code = "InternalError"
         /\ p.sleeps = p.attempt
         /\ p.calls[FirstEndpoint(p.call.op)] = p.attempt + 1

\* C4 (as claimed): when the remote team lookup finds no team,
\* getWorkflowStates fails with the not-found error without retrying, whatever
\* the characters of teamId: remote getTeam is called once for it.
C4_TeamNotFoundNotRetried ==
  \A c \in Callers :
    LET p == proc[c]
    IN (/\ p.call.op = "getWorkflowStates"
        /\ p.lastError.message = <<"Team not found: ">> \o p.call.teamId) =>
         /\ p.pc = "done"
         /\ p.result.kind = "error"
         /\ p.sleeps = p.attempt
         /\ p.calls["team"] = p.attempt + 1

\* C10 (as claimed): when the remote issue lookup finds no issue, the error
\* getIssue throws carries the 404 classification of a client error.
C10_IssueNotFoundIs404 ==
  \A c \in Callers :
    LET p == proc[c]
    IN (/\ p.call.op = "getIssue"
        /\ p.pc = "done"
        /\ p.result.kind = "error"
        /\ Includes(p.result.error.message, <<"Issue not found: ">> \o p.call.issueId)) =>
         /\ p.result.error.statusCode = 404
         /\ p.result.error.code = "InvalidRequest"


\* ------------------------------------- concurrent callers and the throttle
LimiterCalls ==
  {Call("getIssue", <<>>, I1, Undefined),
   Call("addComment", <<>>, I1, Undefined)}

LimiterOutcomes == {Ok("d1")}

NextLimiter ==
  \/ \E c \in Callers, call \in LimiterCalls :
       invocations < MaxInvocationsLimiter /\ Invoke(c, call)
  \/ \E c \in Callers : Admit(c)
  \/ \E c \in Callers, out \in LimiterOutcomes : RemoteReturn(c, out)
  \/ \E c \in Callers : Finish(c)
  \/ Tick(500, MaxClockLimiter)

SpecLimiter == Init /\ [][NextLimiter]_vars

\* C5: at most 10 bodies of rate-limited operations start in any rolling
\* window of 1000 ms, whatever the interleaving of the callers.
C5_AtMostTenStartsPerWindow ==
  Len(SelectSeq(startLog, LAMBDA s : s > clock - 1000)) <= 10

\* the window is full and an invocation is held back in the queue
C5_Witness ==
  /\ Len(SelectSeq(startLog, LAMBDA s : s > clock - 1000)) = 10
  /\ limiterQueue # <<>>
  /\ clock = 500
  /\ \E c \in Callers : proc[c].pc = "queued" /\ proc[c].call.op = "getIssue"

\* C6 (as documented): no more than 10 remote API calls are issued in any
\* window of 1 second, whatever operations issue them.
C6_AtMostTenApiCallsPerSecond ==
  Len(SelectSeq(apiLog, LAMBDA s : s > clock - 1000)) <= 10


\* ------------------------------------------- operations the throttle leaves out
BurstCalls ==
  {Call("searchIssues", <<>>, <<>>, Undefined),
   Call("createIssue", T1, <<>>, Undefined),
   Call("updateIssue", <<>>, I1, Null)}

NextBurst ==
  \/ \E call \in BurstCalls : invocations < MaxInvocationsBurst /\ Invoke(1, call)
  \/ RemoteReturn(1, Ok("d1"))
  \/ Finish(1)
  \/ Tick(500, MaxClockBurst)

SpecBurst == Init /\ [][NextBurst]_vars

\* ------------------------------------------ one invocation at a time: caches
CacheCalls ==
  {Call("getTeams", <<>>, <<>>, Undefined),
   Call("getWorkflowStates", T1, <<>>, Undefined),
   Call("searchIssues", <<>>, <<>>, Str(Me))}

CacheOutcomes == {Ok("d1"), Ok("d2"), Rejected(NetworkError), Rejected(NotFound404)}

NextCache ==
  \/ \E call \in CacheCalls : invocations < MaxInvocationsCache /\ Invoke(1, call)
  \/ Admit(1)
  \/ \E out \in CacheOutcomes : RemoteReturn(1, out)
  \/ Wake(1)
  \/ Finish(1)
  \/ \E d \in {299999, 300000} : Tick(d, MaxClockCache)

SpecCache == Init /\ [][NextCache]_vars

\* the step in which the body of a caching operation of caller c begins:
\* it is the step that looks the cache up
LookupStep(c) ==
  /\ proc[c].pc \in {"idle", "queued"}
  /\ proc'[c].pc \notin {"idle", "queued"}
  /\ CacheKey(proc'[c].call) # <<>>

\* the TTL of the cache behind a key, in ms: 5, 10 and 15 minutes
TTLms(key) ==
  IF key = ViewerKey THEN 300000 ELSE IF key = TeamsKey THEN 600000 ELSE 900000

\* the invocation of c was answered from the cache with data d: no fetch went out
ServedFromCache(p, key, d) ==
  /\ p.calls[FetchEndpoint(key)] = 0
  /\ IF key = ViewerKey
       THEN p.viewerId = d /\ p.pc = "attempt"
       ELSE p.pc = "done" /\ p.result = Value(d) /\ TotalCalls(p) = 0

\* the invocation of c has issued the remote fetch for its key
FetchIssued(p, key) == p.calls[FetchEndpoint(key)] = 1 /\ p.pc \in {"attempt", "resolve"}

\* C7: calls made one after the other: a call that starts less than the TTL
\* after the start of the last call whose fetch succeeded is served what that
\* call fetched and issues no remote fetch; a call that starts when the TTL
\* has run out, or before any fetch succeeded, issues a new remote fetch.
C7_OneFetchPerTTLWindow ==
  [][\A c \in Callers :
       LookupStep(c) =>
         LET key == CacheKey(proc'[c].call)
             f == lastFetch[key]
         IN IF f.done /\ clock < f.start + TTLms(key)
              THEN ServedFromCache(proc'[c], key, f.data)
              ELSE FetchIssued(proc'[c], key)]_vars

\* a second getTeams, begun 599999 ms after the first, is served from the cache
C7_Witness ==
  \E c \in Callers :
    /\ proc[c].call.op = "getTeams"
    /\ proc[c].pc = "done"
    /\ proc[c].lookup = "hit"
    /\ proc[c].now = 599999
    /\ lastFetch[TeamsKey].start = 0
    /\ TotalCalls(proc[c]) = 0

\* C8: in all three caches a lookup is a hit exactly when an entry is present
\* and now < expiresAt; at now = expiresAt and later it is a miss and the
\* remote is consulted.
C8_HitIffPresentAndNotExpired ==
  [][\A c \in Callers :
       LookupStep(c) =>
         LET key == CacheKey(proc'[c].call)
             e == EntryOf(key)
         IN IF e.present /\ clock < e.expiry
              THEN ServedFromCache(proc'[c], key, e.data)
              ELSE FetchIssued(proc'[c], key)]_vars

\* a lookup made at now = expiresAt exactly has missed and fetches
C8_Witness ==
  \E c \in Callers :
    LET p == proc[c]
    IN /\ CacheKey(p.call) # <<>>
       /\ p.lookup = "miss"
       /\ EntryOf(CacheKey(p.call)).present
       /\ p.now = EntryOf(CacheKey(p.call)).expiry
       /\ FetchIssued(p, CacheKey(p.call))

\* C9 (as claimed): a getTeams / getWorkflowStates call that is served from
\* a valid cache entry has not acquired a slot of the rate limiter.
C9_CacheHitTakesNoSlot ==
  \A c \in Callers :
    LET p == proc[c]
    IN (p.call.op \in {"getTeams", "getWorkflowStates"} /\ p.lookup = "hit") =>
         p.admitted = 0

\* ------------------------------------------------- retry: claims on the outcome
\* the last element of a non-empty sequence
Last(seq) == seq[Len(seq)]

\* C11: healthCheck never throws.  Whatever the remote viewer call does
\* (success, a client error, failures at every attempt), a healthCheck that is
\* over has returned a value: the healthy answer with the viewer's data when
\* the last attempt succeeded, otherwise the unhealthy answer whose error is
\* the message of the failure.
C11_HealthCheckNeverThrows ==
  \A c \in Callers :
    LET p == proc[c]
    IN (p.call.op = "healthCheck" /\ p.pc = "done") =>
         /\ p.result.kind \in {"healthy", "unhealthy"}
         /\ p.result.kind = "healthy" =>
              /\ p.lastError = NoError
              /\ Len(p.errors) = p.calls["viewer"] - 1
              /\ p.result.data \in {"d1", "d2"}
         /\ p.result.kind = "unhealthy" =>
              /\ p.errors # <<>>
              /\ Len(p.errors) = p.calls["viewer"]
              /\ p.result.error.message = Last(p.errors).message
              /\ p.result.data = "none"

\* a healthCheck all of whose four attempts failed has answered unhealthy
C11_Witness ==
  \E c \in Callers :
    /\ proc[c].call.op = "healthCheck"
    /\ proc[c].pc = "done"
    /\ proc[c].result.kind = "unhealthy"
    /\ proc[c].result.error.message = NetworkError
    /\ proc[c].calls["viewer"] = 4

\* C12: the sleep withRetry takes after failed attempt k (k = 0, 1, 2) lasts
\* min(1000 * 2^k, 10000) ms, that is 1000, 2000 and 4000 ms in that order;
\* the next attempt is attempt k + 1 and it does not start before that delay
\* has elapsed.
C12_BackoffDelays ==
  [][\A c \in Callers :
       LET p == proc[c]
           q == proc'[c]
       IN /\ (p.pc = "attempt" /\ q.pc = "sleep") =>
               /\ p.attempt \in {0, 1, 2}
               /\ q.attempt = p.attempt
               /\ q.wake - clock = (CASE p.attempt = 0 -> 1000
                                      [] p.attempt = 1 -> 2000
                                      [] p.attempt = 2 -> 4000)
          /\ (p.pc = "sleep" /\ q.pc # "sleep") =>
               /\ q.pc = "attempt"
               /\ q.attempt = p.attempt + 1
               /\ clock >= p.wake
          /\ q.attempt # p.attempt => (p.pc = "sleep" \/ q.pc = "idle")]_vars

\* the fourth attempt runs 1000 + 2000 + 4000 ms after the first one failed
C12_Witness ==
  \E c \in Callers :
    /\ proc[c].pc = "attempt"
    /\ proc[c].attempt = 3
    /\ proc[c].sleeps = 3
    /\ clock = 7000

\* C13: when withRetry gives up (retries exhausted or a client error), the
\* error it raises is the error of the last attempt made: the operation's
\* catch block receives that error alone, whatever the earlier attempts threw.
C13_LastErrorSurfaced ==
  \A c \in Callers :
    LET p == proc[c]
    IN GaveUp(p) =>
         /\ p.errors # <<>>
         /\ p.lastError = Last(p.errors)
         /\ p.result.error.message =
              IF p.call.op = "healthCheck"
                THEN Last(p.errors).message
                ELSE HandleLinearError(Last(p.errors), Context(p.call.op),
                                       ParamString(p.call)).message

\* getTeams failed with a transient error, then with a client error: the
\* client error is the one raised
C13_Witness ==
  \E c \in Callers :
    /\ GaveUp(proc[c])
    /\ proc[c].call.op = "getTeams"
    /\ Len(proc[c].errors) = 2
    /\ proc[c].errors[1].message = NetworkError
    /\ proc[c].errors[2].message = NotFound404
    /\ proc[c].result.error.message =
         <<"Failed to fetch teams from Linear", ": ">> \o NotFound404

\* the operations the rate limiter is said to wrap
SaidRateLimited ==
  {"getTeams", "searchIssues", "getIssue", "getWorkflowStates", "addComment",
   "healthCheck"}

\* C14 (as claimed): the operations that pass through the rate limiter are
\* exactly getTeams, searchIssues, getIssue, getWorkflowStates, addComment and
\* healthCheck: the body of each of them runs only once the limiter admitted
\* it, and createIssue / updateIssue run without an admission.
C14_RateLimitedOperations ==
  \A c \in Callers :
    LET p == proc[c]
    IN p.pc \notin {"idle", "queued"} =>
         /\ p.call.op \in SaidRateLimited => p.admitted = 1
         /\ p.call.op \in {"createIssue", "updateIssue"} => p.admitted = 0

C16_ViewerFetchRetried ==
  \A c \in Callers :
    LET p == proc[c]
    IN (/\ ResolvesMe(p.call)
        /\ p.pc = "done"
        /\ Failed(p)
        /\ p.calls[FirstEndpoint(p.call.op)] = 0
        /\ Includes(p.result.error.message, NetworkError)) =>
         /\ p.calls["viewer"] = 4
         /\ p.sleeps = 3

\* ------------------------------------- one invocation at a time: the viewer
ViewerCalls ==
  {Call("searchIssues", <<>>, <<>>, Str(Me)),
   Call("createIssue", T1, <<>>, Str(Me)),
   Call("updateIssue", <<>>, I1, Str(Me))}

ViewerOutcomes == {Ok("d1"), Ok("d2"), Rejected(NetworkError)}

NextViewer ==
  \/ \E call \in ViewerCalls : invocations < MaxInvocationsViewer /\ Invoke(1, call)
  \/ \E out \in ViewerOutcomes : RemoteReturn(1, out)
  \/ Wake(1)
  \/ Finish(1)
  \/ \E d \in {299999, 300000} : Tick(d, MaxClockViewer)

SpecViewer == Init /\ [][NextViewer]_vars

\* C17: searchIssues, createIssue and updateIssue resolve 'me' through one
\* viewer cache.  Calls made one after the other: once a viewer fetch
\* succeeded, a call of any of the three with assignee 'me' that starts less
\* than 5 minutes after the start of that fetch issues no remote viewer call
\* and passes the id of the viewer that fetch returned to its remote call.
C17_SharedViewerCache ==
  [][\A c \in Callers :
       LET q == proc'[c]
           f == lastFetch[ViewerKey]
       IN (/\ LookupStep(c)
           /\ ResolvesMe(q.call)
           /\ f.done
           /\ clock < f.start + 300000) =>
            /\ q.calls["viewer"] = 0
            /\ q.pc = "attempt"
            /\ q.awaiting = FirstEndpoint(q.call.op)
            /\ q.calls[FirstEndpoint(q.call.op)] = 1
            /\ q.sent.assigneeId = [t |-> "string", s |-> <<f.data>>]]_vars

\* an updateIssue made 299999 ms after the fetch of a searchIssues was served
\* the viewer that searchIssues fetched
C17_Witness ==
  \E c \in Callers :
    /\ proc[c].call.op = "updateIssue"
    /\ proc[c].lookup = "hit"
    /\ proc[c].now = 299999
    /\ lastFetch[ViewerKey].by = "searchIssues"
    /\ lastFetch[ViewerKey].start = 0
    /\ proc[c].calls["viewer"] = 0
    /\ proc[c].calls["updateIssue"] = 1
    /\ proc[c].sent.assigneeId = [t |-> "string", s |-> <<lastFetch[ViewerKey].data>>]

\* --------------------------------- the inputs the operations send to the remote
InputCalls ==
  {CallWith("createIssue", T1, <<>>, a, d, pr, NoNumber) :
     a \in {Undefined, Str(<<>>), Str(Me), Str(U1)},
     d \in {Undefined, Str(<<>>), Str(<<"Desc">>)},
     pr \in {NoNumber, Num(0), Num(2)}}
  \cup
  {CallWith("updateIssue", <<>>, I1, a, d, pr, NoNumber) :
     a \in {Undefined, Null, Str(<<>>), Str(Me), Str(U1)},
     d \in {Undefined, Str(<<>>)},
     pr \in {NoNumber, Num(0)}}
  \cup
  {CallWith("searchIssues", <<>>, <<>>, a, Undefined, NoNumber, l) :
     a \in {Undefined, Str(Me), Str(U1)},
     l \in {NoNumber, Num(-1), Num(0), Num(1), Num(50), Num(249), Num(250),
            Num(251), Num(1000)}}
  \cup
  {SearchCall(q, t, st, a, NoNumber) :
     q \in {<<>>, <<" ">>, <<" ", "\t">>, Bug, <<" ", "b", "u", "g", " ">>,
            <<"b", " ", "g", "\n">>},
     t \in {<<>>, T1},
     st \in {Undefined, Str(<<>>), Str(<<"Done">>)},
     a \in {Undefined, Str(<<>>), Str(Me), Str(U1)}}

NextInputs ==
  \/ \E call \in InputCalls : invocations < MaxInvocationsInputs /\ Invoke(1, call)
  \/ \E out \in {Ok("d1"), Ok("d2")} : RemoteReturn(1, out)
  \/ Finish(1)

SpecInputs == Init /\ [][NextInputs]_vars

\* C18: the input updateIssue sends to the remote holds, whatever the issue:
\* assigneeId: null for the assignee '' and for null (unassign); the id of the
\* viewer for 'me'; any other non-empty string unchanged; and no assigneeId
\* key when the assignee is undefined.
C18_UpdateAssigneeMapping ==
  \A c \in Callers :
    LET p == proc[c]
        a == p.call.assigneeId
        sent == p.sent.assigneeId
    IN (p.call.op = "updateIssue" /\ p.calls["updateIssue"] > 0) =>
         /\ (a.t = "string" /\ a.s = <<>>) => sent.t = "null"
         /\ a.t = "null" => sent.t = "null"
         /\ (a.t = "string" /\ a.s = Me) =>
              /\ sent.t = "string"
              /\ viewerCache \in {"d1", "d2"}
              /\ sent.s = <<viewerCache>>
         /\ (a.t = "string" /\ a.s \notin {<<>>, Me}) => sent = a
         /\ a.t = "undefined" => sent.t = "nokey"

\* an updateIssue with assigneeId '' has sent assigneeId: null
C18_Witness ==
  \E c \in Callers :
    /\ proc[c].call.op = "updateIssue"
    /\ proc[c].call.assigneeId = [t |-> "string", s |-> <<>>]
    /\ proc[c].calls["updateIssue"] = 1
    /\ proc[c].pc = "done"
    /\ proc[c].sent.assigneeId.t = "null"

\* an optional argument of createIssue was supplied
Supplied(v) == v.t \notin {"undefined", "null"}

\* C19: the input createIssue sends to the remote always holds teamId and
\* title; it holds description, priority and assigneeId only when the
\* argument was supplied; with no optional argument it is exactly
\* {teamId, title}; and no key it holds has the value null or undefined.
C19_CreateIssueInputKeys ==
  \A c \in Callers :
    LET p == proc[c]
        sent == p.sent
    IN (p.call.op = "createIssue" /\ p.calls["createIssue"] > 0) =>
         /\ sent.teamId = [t |-> "string", s |-> p.call.teamId]
         /\ sent.title = [t |-> "string", s |-> <<"Title">>]
         /\ sent.description.t # "nokey" =>
              Supplied(p.call.description) /\ sent.description = p.call.description
         /\ sent.priority.t # "nokey" =>
              Supplied(p.call.priority) /\ sent.priority = p.call.priority
         /\ sent.assigneeId.t # "nokey" => Supplied(p.call.assigneeId)
         /\ sent.first.t = "nokey"
         /\ (/\ ~Supplied(p.call.description)
             /\ ~Supplied(p.call.priority)
             /\ ~Supplied(p.call.assigneeId)) =>
              /\ sent.description.t = "nokey"
              /\ sent.priority.t = "nokey"
              /\ sent.assigneeId.t = "nokey"
         /\ \A t \in {sent.teamId.t, sent.title.t, sent.description.t,
                       sent.priority.t, sent.assigneeId.t} :
              t \notin {"null", "undefined"}

\* createIssue('T1', 'Title') has sent exactly {teamId, title}
C19_Witness ==
  \E c \in Callers :
    /\ proc[c].call.op = "createIssue"
    /\ proc[c].call.description.t = "undefined"
    /\ proc[c].call.priority.t = "undefined"
    /\ proc[c].call.assigneeId.t = "undefined"
    /\ proc[c].calls["createIssue"] = 1
    /\ proc[c].sent.teamId.s = T1
    /\ proc[c].sent.description.t = "nokey"
    /\ proc[c].sent.priority.t = "nokey"
    /\ proc[c].sent.assigneeId.t = "nokey"

\* C20: for every requested limit L searchIssues asks the remote for
\* min(L, 250) issues, never for more than 250 (1000 asks for 250); when the
\* limit is absent it asks for exactly 50.
C20_SearchLimitCapped ==
  \A c \in Callers :
    LET p == proc[c]
        L == p.call.limit
    IN (p.call.op = "searchIssues" /\ p.calls["issues"] > 0) =>
         /\ p.sent.first.t = "number"
         /\ p.sent.first.n <= 250
         /\ L.t = "undefined" => p.sent.first.n = 50
         /\ L.t = "number" => p.sent.first.n = (IF L.n < 250 THEN L.n ELSE 250)

\* searchIssues with limit = 1000 has asked the remote for 250 issues
C20_Witness ==
  \E c \in Callers :
    /\ proc[c].call.op = "searchIssues"
    /\ proc[c].call.limit = [t |-> "number", n |-> 1000]
    /\ proc[c].calls["issues"] = 1
    /\ proc[c].sent.first.n = 250

\* the string t is the string s without its leading and trailing whitespace
IsTrimOf(t, s) ==
  /\ t # <<>> => (t[1] \notin {" ", "\t", "\n"} /\ t[Len(t)] \notin {" ", "\t", "\n"})
  /\ \E i \in 0..Len(s) :
       /\ \A k \in 1..i : s[k] \in {" ", "\t", "\n"}
       /\ \A k \in (i + Len(t) + 1)..Len(s) : s[k] \in {" ", "\t", "\n"}
       /\ i + Len(t) <= Len(s)
       /\ SubSeq(s, i + 1, i + Len(t)) = t

\* C21: the filter searchIssues passes to the remote holds a team clause
\* exactly when a (non-empty) teamId is given, a status clause exactly when a
\* (non-empty) status is given, an assignee clause exactly when a (non-empty)
\* assigneeId is given, and a title clause, carrying the trimmed query,
\* exactly when the query is non-empty after trimming; an empty or
\* whitespace-only query with no other argument yields the empty filter.
C21_SearchFilterClauses ==
  \A c \in Callers :
    LET p == proc[c]
        sent == p.sent
        given(v) == v.t = "string" /\ v.s # <<>>
    IN (p.call.op = "searchIssues" /\ p.calls["issues"] > 0) =>
         /\ IF p.call.teamId # <<>>
              THEN sent.team = [t |-> "string", s |-> p.call.teamId]
              ELSE sent.team.t = "nokey"
         /\ IF given(p.call.status)
              THEN sent.state = p.call.status
              ELSE sent.state.t = "nokey"
         /\ IF given(p.call.assigneeId)
              THEN /\ sent.assigneeId.t = "string"
                   /\ sent.assigneeId.s =
                        IF p.call.assigneeId.s = Me THEN <<viewerCache>>
                        ELSE p.call.assigneeId.s
              ELSE sent.assigneeId.t = "nokey"
         /\ IF \E k \in 1..Len(p.call.query) : p.call.query[k] \notin {" ", "\t", "\n"}
              THEN sent.titleContains.t = "string"
                   /\ IsTrimOf(sent.titleContains.s, p.call.query)
              ELSE sent.titleContains.t = "nokey"

\* a search for ' bug ' in team T1 has sent the title clause 'bug'
C21_Witness ==
  \E c \in Callers :
    /\ proc[c].call.op = "searchIssues"
    /\ proc[c].call.query = <<" ", "b", "u", "g", " ">>
    /\ proc[c].call.teamId = T1
    /\ proc[c].calls["issues"] = 1
    /\ proc[c].sent.titleContains.s = <<"b", "u", "g">>
    /\ proc[c].sent.team.s = T1
    /\ proc[c].sent.state.t = "nokey"

\* the failure context of each operation, its first words when it fails
FailureContext ==
  [getTeams |-> "Failed to fetch teams from Linear",
   searchIssues |-> "Failed to search issues in Linear",
   createIssue |-> "Failed to create issue in Linear",
   updateIssue |-> "Failed to update issue in Linear",
   getViewer |-> "Failed to fetch current user from Linear",
   getIssue |-> "Failed to fetch issue from Linear",
   getWorkflowStates |-> "Failed to fetch workflow states from Linear",
   addComment |-> "Failed to add comment to issue in Linear"]

\* the key parameters of an invocation, <<>> when the operation has none
KeyParams(call) ==
  CASE call.op \in {"getIssue", "addComment", "updateIssue"} -> call.issueId
    [] call.op \in {"getWorkflowStates", "createIssue"} -> call.teamId
    [] call.op = "searchIssues" -> call.query
    [] OTHER -> <<>>

\* the sequence s ends with the sequence t
EndsWith(s, t) ==
  Len(t) <= Len(s) /\ SubSeq(s, Len(s) - Len(t) + 1, Len(s)) = t

\* C22: every error that leaves getTeams, searchIssues, createIssue,
\* updateIssue, getIssue, getWorkflowStates, addComment or getViewer is
\* wrapped: its message starts with the failure context of the operation,
\* holds the key parameters of the call when the operation has any, and ends
\* with the message of the underlying error.
C22_ErrorsAreWrapped ==
  \A c \in Callers :
    LET p == proc[c]
        e == p.result.error
    IN (p.pc = "done" /\ p.call.op # "healthCheck" /\ p.result.kind # "value") =>
         /\ p.result.kind = "error"
         /\ e.name = "AppError"
         /\ Head(e.message) = FailureContext[p.call.op]
         /\ KeyParams(p.call) # <<>> =>
              Includes(SubSeq(e.message, 1, Len(e.message) - Len(e.details)),
                       KeyParams(p.call))
         /\ e.details # <<>>
         /\ EndsWith(e.message, e.details)
         /\ p.lastError # NoError => e.details = Last(p.errors).message
         /\ (p.lastError = NoError /\ p.call.op = "getIssue") =>
              e.details = <<"Issue not found: ">> \o p.call.issueId
         /\ (p.lastError = NoError /\ p.call.op # "getIssue") =>
              /\ ResolvesMe(p.call)
              /\ p.calls["viewer"] = 1
              /\ e.details \in {NetworkError, NotFound404, BadRequest400}

\* a createIssue whose four attempts failed has thrown the wrapped error
C22_Witness ==
  \E c \in Callers :
    /\ proc[c].pc = "done"
    /\ proc[c].call.op = "createIssue"
    /\ proc[c].calls["createIssue"] = 4
    /\ proc[c].result.error.message =
         <<"Failed to create issue in Linear", " (", "teamId: ", "T", "1",
           ", title: ", "Title", "): ", "API Error">>

\* ------------------------------------------------- the instance of the service
\* callers get the instance, use the one they were given while it is the
\* current one, and between invocations the instance may be reset
SingletonCalls ==
  {Call("getTeams", <<>>, <<>>, Undefined),
   Call("getWorkflowStates", T1, <<>>, Undefined),
   Call("searchIssues", <<>>, <<>>, Str(Me))}

NextSingleton ==
  \/ \E c \in Callers : GetInstance(c)
  \/ resets < MaxResets /\ (\A c \in Callers : proc[c].pc = "idle") /\ ResetInstance
  \/ \E c \in Callers :
       /\ invocations < MaxInvocationsSingleton
       /\ held[c].id # 0
       /\ held[c].id = instance
       /\ \E call \in SingletonCalls : Invoke(c, call)
  \/ \E c \in Callers : Admit(c)
  \/ \E c \in Callers : RemoteReturn(c, Ok("d1"))
  \/ \E c \in Callers : Finish(c)

SpecSingleton == Init /\ [][NextSingleton]_vars

\* C23: the facade is a single instance: as long as resetInstance is not
\* called, the constructor runs at most once and every getInstance call
\* returns the same instance, the current one, so that all callers work on
\* one set of caches.
C23_SingleInstance ==
  /\ constructions <= resets + 1
  /\ instance \in {0, constructions}
  /\ \A c, d \in Callers :
       (held[c].id # 0 /\ held[d].id # 0 /\ held[c].epoch = held[d].epoch) =>
         held[c].id = held[d].id
  /\ \A c \in Callers :
       (held[c].id # 0 /\ held[c].epoch = resets) => held[c].id = instance

\* two callers got the same instance, and the getTeams of the second is
\* served from the cache the getTeams of the first filled
C23_Witness ==
  /\ held[1].id = 1
  /\ held[2].id = 1
  /\ resets = 0
  /\ constructions = 1
  /\ proc[1].pc = "done" /\ proc[1].lookup = "miss" /\ proc[1].calls["teams"] = 1
  /\ proc[2].pc = "done" /\ proc[2].lookup = "hit" /\ TotalCalls(proc[2]) = 0

\* ------------------------------------------- the throttle under fair scheduling
\* callers submit while a full interval of time remains; the timers of the
\* throttle fire and time passes
NextFair ==
  \/ \E c \in Callers :
       /\ invocations < MaxInvocationsFair
       /\ clock + Interval <= MaxClockFair
       /\ Invoke(c, Call("getIssue", <<>>, I1, Undefined))
  \/ \E c \in Callers : Admit(c)
  \/ \E c \in Callers : RemoteReturn(c, Ok("d1"))
  \/ \E c \in Callers : Finish(c)
  \/ Tick(500, MaxClockFair)

SpecFair ==
  /\ Init
  /\ [][NextFair]_vars
  /\ WF_vars(\E c \in Callers : Admit(c))
  /\ WF_vars(Tick(500, MaxClockFair))

\* C24: the rate limiter never rejects and never starves: every rate-limited
\* invocation that is submitted is eventually admitted and its body started,
\* however many were submitted before it.
C24_EveryoneIsAdmitted ==
  \A c \in Callers :
    (proc[c].pc = "queued") ~> (proc[c].pc # "queued" /\ proc[c].admitted = 1)

\* the eleventh invocation waited for the window to slide and was admitted
C24_Witness ==
  \E c \in Callers :
    /\ proc[c].waited
    /\ proc[c].admitted = 1
    /\ proc[c].calls["issue"] = 1
    /\ invocations = 11
    /\ clock = 1000
    /\ limiterStarts = <<1000>>

\* C25: the rate limiter admits in the order of submission: the invocation
\* whose body is started is the one that was submitted first among those
\* waiting, so that of two rate-limited invocations the one submitted first
\* is started no later than the other; nothing is said of their completion.
C25_FifoAdmission ==
  [][\A c \in Callers :
       (proc[c].pc = "queued" /\ proc'[c].pc # "queued") =>
         /\ submitOrder # <<>>
         /\ Head(submitOrder) = c
         /\ proc'[c].admitted = 1]_vars

\* two invocations waited together for the window to slide; the one
\* submitted first has been started, the other still waits
C25_Witness ==
  /\ submitOrder = <<2>>
  /\ proc[1].pc = "attempt"
  /\ proc[1].waited
  /\ proc[1].admitted = 1
  /\ proc[2].pc = "queued"
  /\ proc[2].waited
  /\ clock = 1000

\* ------------------------------------------- concurrent callers and the caches
StampedeCalls ==
  {Call("getTeams", <<>>, <<>>, Undefined),
   Call("getWorkflowStates", T1, <<>>, Undefined),
   Call("searchIssues", <<>>, <<>>, Str(Me))}

StampedeOutcomes == {Ok("d1"), Ok("d2"), Rejected(NotFound404)}

NextStampede ==
  \/ \E c \in Callers, call \in StampedeCalls :
       invocations < MaxInvocationsStampede /\ Invoke(c, call)
  \/ \E c \in Callers : Admit(c)
  \/ \E c \in Callers, out \in StampedeOutcomes : RemoteReturn(c, out)
  \/ \E c \in Callers : Finish(c)
  \/ Tick(500, MaxClockStampede)

SpecStampede == Init /\ [][NextStampede]_vars

\* the invocation looked the cache up under key k and missed
Cold(p, k) == CacheKey(p.call) = k /\ p.lookup = "miss"

\* a remote call of the invocation itself failed
OwnFailure(p) ==
  p.errors # <<>> \/ (ResolvesMe(p.call) /\ p.calls[FirstEndpoint(p.call.op)] = 0)

\* what the invocation fetched for its key
Fetched(p, k) == IF k = ViewerKey THEN p.viewerId ELSE p.result.data

\* C26: there is no single-flight guard: when the first two calls on a cold
\* service are concurrent calls for one cache key and both miss, each has
\* issued its own remote fetch; a call fails only if a remote call of its own
\* failed; and once both are over and a fetch succeeded, the cache holds a
\* valid entry: the data one of the two fetched, expiring one TTL after that
\* call read the clock.
C26_NoSingleFlight ==
  \A k \in {ViewerKey, TeamsKey, T1} :
    \A c, d \in Callers :
      (/\ c # d
       /\ invocations = 2
       /\ Cold(proc[c], k) /\ Cold(proc[d], k)
       /\ proc[c].pc = "done" /\ proc[d].pc = "done") =>
        /\ \A x \in {c, d} :
             /\ proc[x].calls[FetchEndpoint(k)] = 1
             /\ Failed(proc[x]) <=> OwnFailure(proc[x])
        /\ (\E x \in {c, d} : Fetched(proc[x], k) \in {"d1", "d2"}) =>
             /\ EntryOf(k).present
             /\ clock < EntryOf(k).expiry
             /\ \E x \in {c, d} :
                  /\ Fetched(proc[x], k) \in {"d1", "d2"}
                  /\ EntryOf(k).data = Fetched(proc[x], k)
                  /\ EntryOf(k).expiry = proc[x].now + TTLms(k)

\* two getWorkflowStates(T1) calls both missed, fetched different data at
\* different times, and the cache holds what the later answer brought
C26_Witness ==
  /\ invocations = 2
  /\ Cold(proc[1], T1) /\ Cold(proc[2], T1)
  /\ proc[1].pc = "done" /\ proc[2].pc = "done"
  /\ proc[1].result.data = "d1" /\ proc[2].result.data = "d2"
  /\ proc[1].calls["team"] = 1 /\ proc[2].calls["team"] = 1
  /\ proc[1].now = 0 /\ proc[2].now = 500
  /\ workflowStatesCache[T1].data = "d1"
  /\ workflowStatesCache[T1].expiry = 900000

\* C27: whenever an entry is stored in a cache, it expires one TTL after the
\* moment of the store, however long the fetch and its retries took.
C27_ExpiryFromStoreTime ==
  [][\A k \in {ViewerKey, TeamsKey} \cup TeamIds :
       (EntryOf(k)' # EntryOf(k) /\ EntryOf(k)'.present) =>
         EntryOf(k)'.expiry = clock' + TTLms(k)]_vars

\* ---------------------------------------------------- what writes a cache entry
\* the step is the successful end of the fetch of caller c for key k, bringing d
FetchSucceeds(c, k, d) ==
  /\ CacheKey(proc[c].call) = k
  /\ proc[c].lookup = "miss"
  /\ IF k = ViewerKey
       THEN proc[c].pc = "resolve" /\ proc'[c].pc = "attempt" /\ proc'[c].viewerId = d
       ELSE proc[c].pc = "attempt" /\ proc'[c].pc = "done" /\ proc'[c].result = Value(d)

\* the step is a failure of a remote call of caller c: one that withRetry
\* catches (retried or not), or one that ends the resolution of 'me'
FetchFails(c) ==
  \/ Len(proc'[c].errors) > Len(proc[c].errors)
  \/ proc[c].pc = "resolve" /\ proc'[c].pc = "done"

\* C28: a cache entry is written only by the step in which a fetch for its
\* key succeeds, and then holds what that fetch brought; a step in which a
\* remote call fails (a client error, a failure that is retried, or the last
\* failure of an exhausted retry) leaves every cache as it was, whether the
\* entry was absent, valid or expired.
C28_WrittenOnlyOnSuccess ==
  [][/\ \A k \in {ViewerKey, TeamsKey} \cup TeamIds :
          EntryOf(k)' # EntryOf(k) =>
            \E c \in Callers : FetchSucceeds(c, k, EntryOf(k)'.data)
     /\ \A c \in Callers : FetchFails(c) => UNCHANGED caches]_vars

\* a getTeams call that found the entry expired has failed on a client error,
\* and the expired entry is still there
C28_Witness ==
  \E c \in Callers :
    /\ proc[c].call.op = "getTeams"
    /\ proc[c].pc = "done"
    /\ Failed(proc[c])
    /\ proc[c].lookup = "miss"
    /\ Len(proc[c].errors) = 1
    /\ teamsCache.present
    /\ teamsCache.data = "d2"
    /\ teamsCache.expiry <= proc[c].now

\* C29: a cache hit only reads: no step of an invocation that was served from
\* a cache changes any cache entry or its expiry, so the expiry of an entry
\* stays the one set when it was fetched (the TTL does not slide).
C29_HitIsReadOnly ==
  [][\A c \in Callers :
       (proc'[c] # proc[c] /\ proc'[c].lookup = "hit") => UNCHANGED caches]_vars

\* getTeams was served from the cache one millisecond before the entry
\* expires, and the entry still expires ten minutes after it was fetched
C29_Witness ==
  \E c \in Callers :
    /\ proc[c].call.op = "getTeams"
    /\ proc[c].pc = "done"
    /\ proc[c].lookup = "hit"
    /\ proc[c].now = 599999
    /\ teamsCache.expiry = 600000
    /\ lastFetch[TeamsKey].start = 0

\* ------------------------------------------------ workflow states of two teams
\* one caller asks for the states of two teams, one call after the other
TeamsCalls ==
  {Call("getWorkflowStates", T1, <<>>, Undefined),
   Call("getWorkflowStates", T404, <<>>, Undefined)}

TeamsOutcomes == {Ok("d1"), Ok("d2"), Rejected(NotFound404)}

NextTeams ==
  \/ \E call \in TeamsCalls : invocations < MaxInvocationsTeams /\ Invoke(1, call)
  \/ Admit(1)
  \/ \E out \in TeamsOutcomes : RemoteReturn(1, out)
  \/ Finish(1)
  \/ Tick(450000, MaxClockTeams)

SpecTeams == Init /\ [][NextTeams]_vars

\* the step in which the body of getWorkflowStates(team) of caller c begins
StatesLookup(c, team) ==
  /\ proc[c].pc = "queued"
  /\ proc'[c].pc # "queued"
  /\ proc[c].call.op = "getWorkflowStates"
  /\ proc[c].call.teamId = team

\* the step in which getWorkflowStates(team) of caller c returns what it fetched
StatesFetched(c, team) ==
  /\ proc[c].call.op = "getWorkflowStates"
  /\ proc[c].call.teamId = team
  /\ proc[c].pc = "attempt"
  /\ proc'[c].pc = "done"
  /\ proc'[c].result.kind = "value"

\* C30: the workflow-state entries are independent per team: a call for a
\* team is served from the cache exactly when the entry of that same team is
\* valid, and is then given that entry's data, whatever the entries of other
\* teams hold; and the entry of a team changes only when a fetch for that
\* team succeeds, to what that fetch brought.
C30_EntriesPerTeam ==
  [][\A team \in TeamIds :
       /\ \A c \in Callers :
            StatesLookup(c, team) =>
              IF CacheValid(workflowStatesCache[team], clock)
                THEN /\ proc'[c].pc = "done"
                     /\ proc'[c].result = Value(workflowStatesCache[team].data)
                     /\ TotalCalls(proc'[c]) = 0
                ELSE /\ proc'[c].pc = "attempt"
                     /\ proc'[c].calls["team"] = 1
       /\ workflowStatesCache'[team] # workflowStatesCache[team] =>
            \E c \in Callers :
              /\ StatesFetched(c, team)
              /\ workflowStatesCache'[team] =
                   CacheEntry(proc'[c].result.data, proc[c].now + WORKFLOW_STATES_CACHE_TTL)]_vars

\* while the entry of T1 was valid, a call for T404 missed, fetched its own
\* data, and both entries now stand side by side
C30_Witness ==
  \E c \in Callers :
    /\ proc[c].call.op = "getWorkflowStates"
    /\ proc[c].call.teamId = T404
    /\ proc[c].lookup = "miss"
    /\ proc[c].now = 450000
    /\ proc[c].pc = "done"
    /\ proc[c].result = Value("d2")
    /\ workflowStatesCache[T1] = CacheEntry("d1", 900000)
    /\ workflowStatesCache[T404] = CacheEntry("d2", 1350000)

\* ------------------------------------------------- retry: the first success
\* the step is an answer to the remote call caller c awaits inside withRetry
\* that neither throws nor leads to the second call of getWorkflowStates
AttemptSucceeds(c) ==
  /\ proc[c].pc = "attempt"
  /\ proc'[c] # proc[c]
  /\ proc'[c].errors = proc[c].errors
  /\ ~(proc[c].awaiting = "team" /\ proc'[c].awaiting = "states")

\* C31: withRetry returns with the first attempt that succeeds: that step
\* ends the invocation without another remote call, the value handed on is
\* the one that attempt brought (for the caching operations, the one stored
\* as fetched), and an invocation that ended with a value has invoked the
\* wrapped operation once more than it has failed.
C31_ReturnsOnFirstSuccess ==
  [][\A c \in Callers :
       AttemptSucceeds(c) =>
         LET p == proc[c]
             q == proc'[c]
         IN /\ q.pc = "done"
            /\ TotalCalls(q) = TotalCalls(p)
            /\ q.calls[FirstEndpoint(p.call.op)] = Len(p.errors) + 1
            /\ q.attempt = Len(p.errors)
            /\ q.sleeps = Len(p.errors)
            /\ \E d \in {"d1", "d2", "null"} : q.result = Completed(p.call, d)
            /\ p.call.op \in {"getTeams", "getWorkflowStates"} =>
                 q.result = Value(lastFetch'[CacheKey(p.call)].data)]_vars

\* getTeams failed twice, succeeded at the third attempt and returned what
\* that attempt brought, after three remote calls
C31_Witness ==
  \E c \in Callers :
    /\ proc[c].call.op = "getTeams"
    /\ proc[c].pc = "done"
    /\ proc[c].result = Value("d1")
    /\ Len(proc[c].errors) = 2
    /\ proc[c].calls["teams"] = 3
    /\ proc[c].attempt = 2

\* ------------------------------------------- retry: every invocation ends
\* every remote call is answered, the throttle admits, and every backoff timer
\* fires
SpecRetryFair ==
  /\ Init
  /\ [][NextRetry]_vars
  /\ WF_vars(Admit(1))
  /\ WF_vars(\E out \in RetryOutcomes : RemoteReturn(1, out))
  /\ WF_vars(TimerFires(1, MaxClockRetry))
  /\ WF_vars(Wake(1))

\* RETURN or ERROR
Returned(p) == p.result.kind \in {"value", "healthy", "unhealthy"}
Errored(p) == p.result.kind = "error"

\* the remote calls one invocation can make: four attempts of at most two
\* calls each, and one viewer fetch
MaxRemoteCalls == 2 * (MaxRetries + 1) + 1

\* C32: an invocation ends in exactly one of RETURN and ERROR: it has a result
\* exactly when it is over, it never makes more than four attempts, and, when
\* every remote call is answered, the throttle admits and every backoff timer
\* fires, every invocation that began is eventually over.
C32_InvocationsTerminate ==
  /\ [](\A c \in Callers :
          LET p == proc[c]
          IN /\ p.pc = "done" <=> (Returned(p) \/ Errored(p))
             /\ p.pc # "done" => p.result = NoResult
             /\ p.attempt <= MaxRetries
             /\ p.pc # "idle" => p.calls[FirstEndpoint(p.call.op)] <= MaxRetries + 1
             /\ TotalCalls(p) <= MaxRemoteCalls)
  /\ \A c \in Callers :
       (proc[c].pc \in {"queued", "resolve", "attempt", "sleep"}) ~> (proc[c].pc = "done")

\* getWorkflowStates ended with an error after four attempts that each found
\* the team and failed to list its states: eight remote calls
C32_Witness ==
  \E c \in Callers :
    /\ proc[c].call.op = "getWorkflowStates"
    /\ proc[c].pc = "done"
    /\ Errored(proc[c])
    /\ proc[c].calls["team"] = 4
    /\ proc[c].calls["states"] = 4
    /\ proc[c].admitted = 1

\* ------------------------------------------- callers interleave at the awaits
InterleaveCalls ==
  {Call("getIssue", <<>>, I1, Undefined),
   Call("getTeams", <<>>, <<>>, Undefined)}

InterleaveOutcomes == {Ok("d1"), Rejected(NetworkError)}

\* caller 1 and caller 2 call in any order
TwoCallers == {1, 2}

NextInterleave ==
  \/ \E c \in TwoCallers, call \in InterleaveCalls :
       invocations < MaxInvocationsInterleave /\ Invoke(c, call)
  \/ \E c \in TwoCallers : Admit(c)
  \/ \E c \in TwoCallers, out \in InterleaveOutcomes : RemoteReturn(c, out)
  \/ \E c \in TwoCallers : Wake(c)
  \/ \E c \in TwoCallers : Finish(c)
  \/ Tick(500, MaxClockInterleave)

\* the throttle admits and the remote calls are answered; nothing is assumed
\* of the passing of time or of the backoff timers
SpecInterleave ==
  /\ Init
  /\ [][NextInterleave]_vars
  /\ \A c \in TwoCallers : WF_vars(Admit(c))
  /\ \A c \in TwoCallers : WF_vars(\E out \in InterleaveOutcomes : RemoteReturn(c, out))

\* C33: a sleeping or awaiting invocation does not block the others: with
\* fewer calls than the rate limit allows in a window, every other invocation
\* is admitted and runs to its end or to its own backoff sleep even if no
\* timer ever fires and no time passes; and a sleeping invocation is resumed
\* by nothing but its own timer, once it is due.
C33_SleepDoesNotBlock ==
  /\ \A c \in Callers :
       (proc[c].pc \in {"queued", "resolve", "attempt"}) ~> (proc[c].pc \in {"done", "sleep"})
  /\ [][\A c \in Callers :
          (proc[c].pc = "sleep" /\ proc'[c] # proc[c]) =>
            (proc'[c].pc = "attempt" /\ clock >= proc[c].wake)]_vars

\* while getIssue of caller 1 sleeps until time 1000, getTeams of caller 2 was
\* submitted at time 500, admitted, and has returned
C33_Witness ==
  /\ proc[1].call.op = "getIssue"
  /\ proc[1].pc = "sleep"
  /\ proc[1].wake = 1000
  /\ clock = 500
  /\ proc[2].call.op = "getTeams"
  /\ proc[2].now = 500
  /\ proc[2].admitted = 1
  /\ proc[2].pc = "done"
  /\ proc[2].result = Value("d1")

\* C34: the instance getInstance constructs after a resetInstance has empty
\* viewer, teams and workflow-state caches, whatever the discarded instance
\* held; and a getTeams, getWorkflowStates or 'me' resolution that finds its
\* cache empty issues a remote fetch.
C34_FreshInstanceIsCold ==
  [][/\ (instance = 0 /\ instance' # 0) =>
          /\ viewerCache' = "undefined"
          /\ viewerCacheExpiry' = 0
          /\ teamsCache' = NoEntry
          /\ \A t \in TeamIds : workflowStatesCache'[t] = NoEntry
     /\ \A c \in Callers :
          (LookupStep(c) /\ ~EntryOf(CacheKey(proc'[c].call)).present) =>
            /\ proc'[c].lookup = "miss"
            /\ FetchIssued(proc'[c], CacheKey(proc'[c].call))]_vars

\* the first instance fetched the teams, it was reset, and the getTeams of a
\* caller of the second instance has issued a fetch although the entry of the
\* first would still be valid
C34_Witness ==
  \E c \in Callers :
    /\ resets = 1
    /\ instance = 2
    /\ held[c].id = 2
    /\ lastFetch[TeamsKey].done
    /\ clock < lastFetch[TeamsKey].start + TEAMS_CACHE_TTL
    /\ proc[c].call.op = "getTeams"
    /\ proc[c].pc = "attempt"
    /\ proc[c].lookup = "miss"
    /\ proc[c].calls["teams"] = 1
    /\ ~teamsCache.present

\* ------------------------------------------------ the resolution of 'me' fails
\* C35: the answer to the viewer fetch of a createIssue, updateIssue or
\* searchIssues with assignee 'me' either brings a viewer, or ends the
\* invocation: it then fails with the wrapped error of the fetch, its remote
\* createIssue / updateIssue / issues call has not been and is not issued,
\* and the viewer cache, empty or expired, is left as it was.
C35_FailedResolutionStopsTheCall ==
  [][\A c \in Callers :
       (proc[c].pc = "resolve" /\ proc'[c] # proc[c]) =>
         LET p == proc[c]
             q == proc'[c]
             e == q.result.error
         IN \/ /\ q.viewerId \in {"d1", "d2"}
               /\ q.pc = "attempt"
               /\ viewerCache' = q.viewerId
            \/ /\ q.pc = "done"
               /\ q.result.kind = "error"
               /\ e.name = "AppError"
               /\ Head(e.message) = FailureContext[p.call.op]
               /\ EndsWith(e.message, e.details)
               /\ e.details \in {NetworkError, NotFound404, BadRequest400}
               /\ q.calls[FirstEndpoint(p.call.op)] = 0
               /\ UNCHANGED <<viewerCache, viewerCacheExpiry>>]_vars

\* an updateIssue with assignee 'me' found the cached viewer expired, its
\* viewer fetch failed, and the expired viewer is still in the cache
C35_Witness ==
  \E c \in Callers :
    /\ proc[c].call.op = "updateIssue"
    /\ proc[c].pc = "done"
    /\ proc[c].lookup = "miss"
    /\ proc[c].result.kind = "error"
    /\ proc[c].calls["viewer"] = 1
    /\ proc[c].calls["updateIssue"] = 0
    /\ viewerCache = "d1"
    /\ viewerCacheExpiry = 300000
    /\ proc[c].now = 300000

\* --------------------------------------- concurrent callers and slow fetches
\* two callers; a remote call may be answered any time after it was issued
StaleCalls ==
  {Call("getTeams", <<>>, <<>>, Undefined),
   Call("getWorkflowStates", T1, <<>>, Undefined),
   Call("searchIssues", <<>>, <<>>, Str(Me))}

StaleOutcomes == {Ok("d1"), Ok("d2")}

NextStale ==
  \/ \E c \in TwoCallers, call \in StaleCalls :
       invocations < MaxInvocationsStale /\ Invoke(c, call)
  \/ \E c \in TwoCallers : Admit(c)
  \/ \E c \in TwoCallers, out \in StaleOutcomes : RemoteReturn(c, out)
  \/ \E c \in TwoCallers : Finish(c)
  \/ Tick(300000, MaxClockStale)

SpecStale == Init /\ [][NextStale]_vars

\* the step stores a fetched value under key k
Stored(k) == EntryOf(k)' # EntryOf(k) /\ EntryOf(k)'.present

\* C36: bounded staleness: an entry stored in the viewer, teams or
\* workflow-state cache expires at most one TTL after the moment its fetch
\* was completed, which is the moment it is stored; and a value is served from
\* a cache only before the expiry of the entry it is read from.  A value
\* served from a cache is thus less than one TTL older than its fetch.
C36_BoundedStaleness ==
  [][/\ \A k \in {ViewerKey, TeamsKey} \cup TeamIds :
          Stored(k) => EntryOf(k)'.expiry <= clock + TTLms(k)
     /\ \A c \in Callers :
          (LookupStep(c) /\ proc'[c].lookup = "hit") =>
            LET key == CacheKey(proc'[c].call)
            IN /\ EntryOf(key).present
               /\ clock < EntryOf(key).expiry
               /\ ServedFromCache(proc'[c], key, EntryOf(key).data)]_vars

\* a fetch issued at time 0 filled the teams cache; a getTeams that began at
\* 300000 is served its value
C36_Witness ==
  \E c \in Callers :
    /\ proc[c].call.op = "getTeams"
    /\ proc[c].lookup = "hit"
    /\ proc[c].pc = "done"
    /\ proc[c].now = 300000
    /\ clock = 300000
    /\ lastFetch[TeamsKey].start = 0
    /\ teamsCache.expiry = 600000
    /\ proc[c].result = Value(teamsCache.data)

\* C37: the expiry of a cache entry never moves backwards: every write of an
\* entry sets an expiry that is at least the expiry of the entry it replaces.
C37_ExpiryNeverMovesBack ==
  [][\A k \in {ViewerKey, TeamsKey} \cup TeamIds :
       (Stored(k) /\ EntryOf(k).present) =>
         EntryOf(k)'.expiry >= EntryOf(k).expiry]_vars

\* ------------------------------------------------ one admission per invocation
\* C38: an invocation of getTeams, getIssue, getWorkflowStates, addComment or
\* healthCheck is admitted by the throttle exactly once, before its first
\* remote call: while it waits it has made no remote call, and from its
\* admission to its end, through every retried attempt and the second remote
\* call of getWorkflowStates, it holds that one admission; the throttle has
\* never admitted more starts than invocations were made.
C38_OneAdmissionPerInvocation ==
  /\ \A c \in Callers :
       LET p == proc[c]
       IN p.call.op \in RateLimitedOps =>
            /\ p.pc = "queued" => (p.admitted = 0 /\ TotalCalls(p) = 0)
            /\ p.pc \in {"attempt", "sleep", "done"} => p.admitted = 1
  /\ Len(limiterStarts) <= invocations

\* getWorkflowStates found the team, failed to list its states, slept, found
\* the team again and returned the states: four remote calls, one admission
C38_Witness ==
  \E c \in Callers :
    /\ proc[c].call.op = "getWorkflowStates"
    /\ proc[c].pc = "done"
    /\ proc[c].result = Value("d1")
    /\ proc[c].calls["team"] = 2
    /\ proc[c].calls["states"] = 2
    /\ proc[c].sleeps = 1
    /\ proc[c].admitted = 1

====
